---- MODULE Spec2Model ----
(***************************************************************************)
(* go-dl: the orchestrator of tui.go (model.Update, downloadCmd,           *)
(* extractCmd), main() and GoRepository.Download of main.go.               *)
(*                                                                         *)
(* The bubbletea event loop is a single goroutine that receives one        *)
(* message at a time from an unbuffered channel.  A command returned by    *)
(* Update runs on its own goroutine; tea.Sequence runs its commands one    *)
(* after the other on one goroutine and sends every message they return    *)
(* (Program.Send blocks until the loop receives, and returns at once when  *)
(* the program has finished).  A send and its receipt, or its loss, are    *)
(* therefore one step of the model.                                        *)
(***************************************************************************)
EXTENDS Integers, Sequences, FiniteSets, TLC

\* ---------------------------------------------------------------- bounds
\* files in a slice handed to Filter
MaxFiles == 3
\* releases in a slice handed to sort.Sort
MaxReleases == 3
\* tokens of the body of the catalog response
MaxBody == 5
\* entries of a tar archive handed to Decompress
MaxEntries == 2
\* confirmations (enter key presses) that start a chain in one run
MaxChains == 1
\* longest response body, in bytes; it fits the 32 KiB buffer of Download,
\* so that a Read can bring any part of what is left of the body
MaxLen == 1

\* calls of resp.Body.Read in a Download called on its own
MaxReads == 2

\* --------------------------------------------------------------- catalog
\* the fields of File and Release the program reads; File{} is the zero value
ZeroFile == [Filename |-> "", Os |-> "", Arch |-> ""]

LinuxFileA == [Filename |-> "go1.20.2.linux-amd64.tar.gz", Os |-> "linux", Arch |-> "amd64"]
LinuxFileB == [Filename |-> "go1.20.2.linux-amd64.msi", Os |-> "linux", Arch |-> "amd64"]
DarwinFile == [Filename |-> "go1.20.2.darwin-arm64.tar.gz", Os |-> "darwin", Arch |-> "arm64"]
LinuxArmFile == [Filename |-> "go1.19.7.linux-arm64.tar.gz", Os |-> "linux", Arch |-> "arm64"]

\* a release with two linux/amd64 files and one without any
ReleaseGood == [Version |-> "go1.20.2", Files |-> <<DarwinFile, LinuxFileA, LinuxFileB>>]
ReleaseNoMatch == [Version |-> "go1.19.7", Files |-> <<DarwinFile, LinuxArmFile>>]

\* what GetVersions can hand to main: a catalog, or nothing with an error
Catalogs == {<<ReleaseGood, ReleaseNoMatch>>}

\* the catalogs of the end-to-end scenario, in either order and with one
\* release only: every release has a linux/amd64 file
ReleaseOlder == [Version |-> "go1.19.7", Files |-> <<LinuxArmFile, LinuxFileB>>]
CleanCatalogs ==
    {<<ReleaseGood, ReleaseOlder>>, <<ReleaseOlder, ReleaseGood>>,
     <<ReleaseGood>>, <<ReleaseOlder>>}

\* the two predicates downloadCmd passes to Filter
IsLinux(f) == f.Os = "linux"
IsAmd64(f) == f.Arch = "amd64"

\* every predicate taken for the first of the two
HoldsOsOnly(spec, f) == IsLinux(f)

Holds(spec, f) == IF spec = "linux" THEN IsLinux(f) ELSE IsAmd64(f)

RECURSIVE AllHold(_, _)
AllHold(specs, f) ==
    IF specs = <<>> THEN TRUE
    ELSE AllHold(Tail(specs), f) /\ Holds(Head(specs), f)

RECURSIVE Filter(_, _)
Filter(files, specs) ==
    IF files = <<>> THEN <<>>
    ELSE IF AllHold(specs, Head(files))
         THEN <<Head(files)>> \o Filter(Tail(files), specs)
         ELSE Filter(Tail(files), specs)

\* downloadCmd taking the last element of the filtered list
RECURSIVE SelectFileLast(_, _, _)
SelectFileLast(vs, ch, dlf) ==
    IF vs = <<>> THEN dlf
    ELSE LET l == Filter(Head(vs).Files, <<"linux", "amd64">>)
         IN SelectFileLast(Tail(vs), ch,
                           IF Head(vs).Version = ch /\ Len(l) > 0 THEN l[Len(l)] ELSE dlf)

\* the loop of downloadCmd over m.versions: the last release whose version
\* equals the choice and that has a matching file decides dlf
RECURSIVE SelectFile(_, _, _)
SelectFile(vs, ch, dlf) ==
    IF vs = <<>> THEN dlf
    ELSE LET l == Filter(Head(vs).Files, <<"linux", "amd64">>)
         IN SelectFile(Tail(vs), ch,
                       IF Head(vs).Version = ch /\ Len(l) > 0 THEN l[1] ELSE dlf)

\* ----------------------------------------------------------------- state
VARIABLES
    versions,    \* m.versions, the result of GetVersions in main
    fetchErr,    \* GetVersions returned an error
    listIndex,   \* cursor of the list widget, 0-based
    choice,      \* m.choice of the loop's model
    status,      \* m.status
    err,         \* m.err, "" for nil
    percent,     \* the progress indicator: <<numerator, denominator>>
    loop,        \* app.Run: "running", "stopped" (returned nil), "failed"
    quitPending, \* a tea.Quit command is in flight
    exited,      \* the process has exited
    exitCode,
    chains,      \* the Sequence goroutines started by enter
    installDir,  \* /usr/local/go: "old", "absent", "partial", "new"
    tempFiles,   \* temporary files created by os.CreateTemp
    env,         \* what the environment may do: "faulty" (any outcome of a
                 \* request, a read, a write or a file operation) or "clean"
                 \* (none of them fails, and the user presses no quit key)
                 \* or "none" (the program is not run, a function is called)
    call         \* a function called on its own, as the tests call it:
                 \* its name, its argument and what it returned

vars == <<versions, fetchErr, listIndex, choice, status, err, percent,
          loop, quitPending, exited, exitCode, chains, installDir, tempFiles, env, call>>

\* the archive the remote serves: its tar entries by type flag
Archive == <<"dir", "reg", "reg">>

\* one tea.Sequence goroutine with the model copy (&m) its commands share
NewChain(ch) ==
    [pc |-> "sendDownloading",
     choice |-> ch,        \* m.choice of the copy
     file |-> "nil",       \* m.file: "nil", "open", "closed"
     dlf |-> ZeroFile,     \* the File handed to Download
     msg |-> "",           \* error of the message the running command returns
     dl |-> "none",        \* downloadCmd: "none", "running", "ok", "err"
     calls |-> 0,          \* calls of Download
     resp |-> FALSE,       \* Download: client.Do has returned a response
     total |-> 0,          \* Download: int(resp.ContentLength)
     downloaded |-> 0,     \* Download: bytes counted
     bodyLen |-> 0,        \* bytes the response body carries
     bodyLeft |-> 0,       \* bytes of the body not read yet
     reads |-> 0,          \* calls of resp.Body.Read
     written |-> 0,        \* bytes Download has written to the temporary file
     out |-> <<>>,         \* the temporary file: the body positions written
     emitted |-> 0,        \* calls of onProgress by Download
     rdErr |-> "nil",      \* errRead of the last Read: "nil", "EOF", "err"
     wrErr |-> FALSE,      \* errWrite of the last Write
     complete |-> FALSE,   \* the temporary file holds the whole body
     handled |-> <<>>,     \* the events of this chain the loop has handled
     rewound |-> FALSE,    \* extractCmd: Seek(0) returned nil
     removed |-> FALSE,    \* extractCmd: RemoveAll returned nil
     decompress |-> "none",\* Decompress: "none", "running", "ok", "err"
     entry |-> 0,          \* Decompress: entries of the second pass done
     totalFiles |-> 0,
     countFiles |-> 0]

\* no function is called on its own while the program runs
NoCall == [fn |-> "none", arg |-> <<>>, ret |-> <<>>]

\* an operation of the environment may fail; the user may press a quit key
MayFail == env = "faulty"
MayInterrupt == env = "faulty"

\* main up to app.Run: GetVersions hands over a catalog, or fails, and main
\* goes on with no release; app.Run can fail before the loop runs
Start ==
    /\ \/ versions \in (IF MayFail THEN Catalogs ELSE CleanCatalogs) /\ fetchErr = FALSE
       \/ MayFail /\ versions = <<>> /\ fetchErr = TRUE
    /\ listIndex = 0
    /\ choice = ""
    /\ status = "Choosing"
    /\ err = ""
    /\ percent = <<0, 1>>
    /\ loop \in (IF MayFail THEN {"running", "failed"} ELSE {"running"})
    /\ quitPending = FALSE
    /\ exited = FALSE
    /\ exitCode = 0
    /\ chains = <<>>
    /\ installDir = "old"
    /\ tempFiles = 0
    /\ call = NoCall

Init == env = "faulty" /\ Start

\* ------------------------------------------------------------ event loop
LoopUp == loop = "running" /\ ~exited

\* a goroutine runs until the process exits
Running(c) == ~exited /\ c \in 1..Len(chains)

\* list.SelectedItem(): the item under the cursor, "" when the list is empty
SelectedItem == IF listIndex < Len(versions) THEN versions[listIndex + 1].Version ELSE ""

\* the message a chain is blocked sending, by its position
SendPcs == {"sendDownloading", "dlProgress", "sendDlMsg", "sendExtracting",
            "dcProgress", "sendExMsg"}

MsgType(ch) ==
    CASE ch.pc \in {"sendDownloading", "sendExtracting"} -> "status"
      [] ch.pc \in {"dlProgress", "dcProgress"} -> "progress"
      [] ch.pc = "sendDlMsg" -> IF ch.msg = "" THEN "nil" ELSE "err"
      [] ch.pc = "sendExMsg" -> IF ch.msg = "" THEN "done" ELSE "err"
      [] OTHER -> "none"

\* the progress fraction a chain is sending
Fraction(ch) ==
    IF ch.pc = "dlProgress" THEN <<ch.downloaded, ch.total>>
    ELSE <<ch.countFiles, ch.totalFiles>>

\* Download going on after a Write that returned an error
AfterDlProgressNoWriteCheck(ch) ==
    IF ch.rdErr = "err" THEN [ch EXCEPT !.pc = "sendDlMsg", !.msg = "read", !.dl = "err"]
    ELSE IF ch.rdErr = "EOF" THEN [ch EXCEPT !.pc = "sendDlMsg", !.msg = "", !.dl = "ok"]
    ELSE [ch EXCEPT !.pc = "dlRead"]

\* Download going on after a Read that returned an error other than io.EOF
AfterDlProgressNoReadCheck(ch) ==
    IF ch.wrErr THEN [ch EXCEPT !.pc = "sendDlMsg", !.msg = "write", !.dl = "err"]
    ELSE IF ch.rdErr = "EOF" THEN [ch EXCEPT !.pc = "sendDlMsg", !.msg = "", !.dl = "ok"]
    ELSE [ch EXCEPT !.pc = "dlRead"]

\* Download after onProgress returns: the checks of errWrite and errRead
AfterDlProgress(ch) ==
    IF ch.wrErr THEN [ch EXCEPT !.pc = "sendDlMsg", !.msg = "write", !.dl = "err"]
    ELSE IF ch.rdErr = "err" THEN [ch EXCEPT !.pc = "sendDlMsg", !.msg = "read", !.dl = "err"]
    ELSE IF ch.rdErr = "EOF" THEN [ch EXCEPT !.pc = "sendDlMsg", !.msg = "", !.dl = "ok"]
    ELSE [ch EXCEPT !.pc = "dlRead"]

\* Decompress after onProgress returns: the next entry of the second pass
AfterDcProgress(ch) == [ch EXCEPT !.pc = "dcEntry"]

\* the temporary file holds the whole body of a download that ended cleanly
FileComplete(ch) == ch.dl = "ok" /\ ch.bodyLen > 0 /\ ch.written = ch.bodyLen

\* downloadCmd has returned and its message is sent: the locals of Download
\* are gone, the temporary file keeps what was written
DownloadReturned(ch) ==
    [ch EXCEPT !.pc = "sendExtracting", !.msg = "", !.complete = FileComplete(ch),
               !.resp = FALSE, !.total = 0, !.downloaded = 0, !.bodyLen = 0,
               !.bodyLeft = 0, !.written = 0, !.out = <<>>, !.reads = 0,
               !.emitted = 0, !.rdErr = "nil", !.wrErr = FALSE]

\* extractCmd has returned and its message is sent: the locals of Decompress
\* are gone and the sequence is over
ExtractReturned(ch) ==
    [ch EXCEPT !.pc = "finished", !.msg = "", !.entry = 0, !.countFiles = 0,
               !.totalFiles = 0]

\* the goroutine of tea.Sequence after Program.Send returns: it runs the next
\* command of the sequence whatever message the previous one returned
Advance(ch) ==
    CASE ch.pc = "sendDownloading" -> [ch EXCEPT !.pc = "downloadCmd", !.dl = "running"]
      [] ch.pc = "dlProgress" -> AfterDlProgress(ch)
      [] ch.pc = "sendDlMsg" -> DownloadReturned(ch)
      [] ch.pc = "sendExtracting" -> [ch EXCEPT !.pc = "extractCmd"]
      [] ch.pc = "dcProgress" -> AfterDcProgress(ch)
      [] ch.pc = "sendExMsg" -> ExtractReturned(ch)
      [] OTHER -> ch

\* what the loop does with the message a chain is sending
Event(ch) ==
    CASE ch.pc = "sendDownloading" -> "Downloading"
      [] ch.pc = "sendExtracting" -> "Extracting"
      [] OTHER -> MsgType(ch)

Delivered(c) ==
    chains' = [chains EXCEPT ![c] =
                 [Advance(chains[c]) EXCEPT !.handled =
                     IF MsgType(chains[c]) \in {"status", "err", "done"}
                     THEN Append(chains[c].handled, Event(chains[c]))
                     ELSE chains[c].handled]]

Dropped(c) == chains' = [chains EXCEPT ![c] = Advance(chains[c])]

\* case tea.KeyMsg, "ctrl+c"
KeyCtrlC ==
    /\ LoopUp
    /\ MayInterrupt
    /\ status' = "Quitting"
    /\ quitPending' = TRUE
    /\ UNCHANGED <<versions, fetchErr, listIndex, choice, err, percent, loop,
                   exited, exitCode, chains, installDir, tempFiles, env, call>>

\* case tea.KeyMsg, "enter": the choice is taken from the list and the
\* sequence of four commands is started, whatever the status is
KeyEnter ==
    /\ LoopUp
    /\ Len(chains) < MaxChains
    /\ choice' = IF SelectedItem # "" THEN SelectedItem ELSE choice
    /\ chains' = Append(chains, NewChain(choice'))
    /\ UNCHANGED <<versions, fetchErr, listIndex, status, err, percent,
                   loop, quitPending, exited, exitCode, installDir, tempFiles, env, call>>

\* any other key goes to list.Update: up and down move the cursor; the
\* cursor is read by the next confirmation only, so that moves after the
\* last one of a run are left out
KeyMove ==
    /\ LoopUp
    /\ Len(chains) < MaxChains
    /\ \E d \in {-1, 1} :
          /\ listIndex + d >= 0
          /\ listIndex + d < Len(versions)
          /\ listIndex' = listIndex + d
    /\ UNCHANGED <<versions, fetchErr, choice, status, err, percent, loop,
                   quitPending, exited, exitCode, chains, installDir, tempFiles, env, call>>

\* "q" and "esc" are the list's quit keys: list.Update returns tea.Quit
KeyQ ==
    /\ LoopUp
    /\ MayInterrupt
    /\ quitPending' = TRUE
    /\ UNCHANGED <<versions, fetchErr, listIndex, choice, status, err,
                   percent, loop, exited, exitCode, chains, installDir, tempFiles, env, call>>

\* Program.Send called by chain c with a message of type t; it returns when
\* the loop has received the message, or at once when the program has
\* finished, and then the message is lost
Sends(c, t) == Running(c) /\ MsgType(chains[c]) = t

Received(c) == LoopUp /\ Delivered(c)

Discarded(c) ==
    /\ loop = "stopped"
    /\ Dropped(c)
    /\ UNCHANGED <<status, err, percent, quitPending>>

\* Update without the case statusMsg: the status event falls through to the
\* list and the status stays
UpdateStatusIgnored(c) == UNCHANGED <<status, err, percent, quitPending>>

\* case statusMsg
UpdateStatus(c) ==
    /\ status' = IF chains[c].pc = "sendDownloading" THEN "Downloading" ELSE "Extracting"
    /\ UNCHANGED <<err, percent, quitPending>>

\* case errMsg writing the status as the case of ctrl+c does
UpdateErrQuitting(c) ==
    /\ err' = chains[c].msg
    /\ status' = "Quitting"
    /\ quitPending' = TRUE
    /\ UNCHANGED percent

\* case errMsg: the error is recorded and tea.Quit returned
UpdateErr(c) ==
    /\ err' = chains[c].msg
    /\ quitPending' = TRUE
    /\ UNCHANGED <<status, percent>>

\* case doneMsg without the tea.Quit after the pause
UpdateDoneNoQuit(c) ==
    /\ status' = "Completed"
    /\ UNCHANGED <<err, percent, quitPending>>

\* case doneMsg: Completed, then finalPause and tea.Quit in sequence
UpdateDone(c) ==
    /\ status' = "Completed"
    /\ quitPending' = TRUE
    /\ UNCHANGED <<err, percent>>

\* case progressMsg: the progress indicator is set
UpdateProgress(c) ==
    /\ percent' = Fraction(chains[c])
    /\ UNCHANGED <<status, err, quitPending>>

\* the nil message of a downloadCmd that succeeded changes nothing
UpdateNil(c) == UNCHANGED <<status, err, percent, quitPending>>

\* statusCmd(Downloading) and statusCmd(Extracting): the status event is sent
SendStatus(c) ==
    /\ Sends(c, "status")
    /\ \/ Received(c) /\ UpdateStatus(c)
       \/ Discarded(c)
    /\ UNCHANGED <<versions, fetchErr, listIndex, choice, loop, exited, exitCode,
                   installDir, tempFiles, env, call>>

\* the errMsg returned by downloadCmd or extractCmd is sent
SendErr(c) ==
    /\ Sends(c, "err")
    /\ \/ Received(c) /\ UpdateErr(c)
       \/ Discarded(c)
    /\ UNCHANGED <<versions, fetchErr, listIndex, choice, loop, exited, exitCode,
                   installDir, tempFiles, env, call>>

\* the doneMsg returned by extractCmd is sent
SendDone(c) ==
    /\ Sends(c, "done")
    /\ \/ Received(c) /\ UpdateDone(c)
       \/ Discarded(c)
    /\ UNCHANGED <<versions, fetchErr, listIndex, choice, loop, exited, exitCode,
                   installDir, tempFiles, env, call>>

\* repo.onProgress: app.Send(progressMsg(ratio))
SendProgress(c) ==
    /\ Sends(c, "progress")
    /\ \/ Received(c) /\ UpdateProgress(c)
       \/ Discarded(c)
    /\ UNCHANGED <<versions, fetchErr, listIndex, choice, loop, exited, exitCode,
                   installDir, tempFiles, env, call>>

\* the nil returned by downloadCmd is sent
SendNil(c) ==
    /\ Sends(c, "nil")
    /\ \/ Received(c) /\ UpdateNil(c)
       \/ Discarded(c)
    /\ UNCHANGED <<versions, fetchErr, listIndex, choice, loop, exited, exitCode,
                   installDir, tempFiles, env, call>>

\* the loop receives the QuitMsg of tea.Quit: app.Run returns nil
HandleQuit ==
    /\ LoopUp
    /\ quitPending
    /\ loop' = "stopped"
    /\ UNCHANGED <<versions, fetchErr, listIndex, choice, status, err, percent,
                   quitPending, exited, exitCode, chains, installDir, tempFiles, env, call>>

\* main after app.Run: os.Exit(1) on an error of Run, a plain return otherwise
ExitCodeOf(l) == IF l = "failed" THEN 1 ELSE 0

Exit ==
    /\ loop \in {"stopped", "failed"}
    /\ ~exited
    /\ exited' = TRUE
    /\ exitCode' = ExitCodeOf(loop)
    /\ UNCHANGED <<versions, fetchErr, listIndex, choice, status, err, percent,
                   loop, quitPending, chains, installDir, tempFiles, env, call>>

\* ---------------------------------------------------------------- worker
Set(c, ch) == chains' = [chains EXCEPT ![c] = ch]

\* the lengths a response can declare: -1 when it declares none
ContentLengths == IF MayFail THEN {-1} \cup (0..MaxLen) ELSE 1..MaxLen

\* the body lengths that can come with a declared length: the transport
\* hands over a body of the declared length, and one of any length when none
\* is declared; a body cut short shows as the error of a Read
BodyLens(cl) == IF cl < 0 THEN 0..MaxLen ELSE {cl}

\* Download without the check of the declared length
DownloadStartNoCheck(ch, cl, bl) ==
    [ch EXCEPT !.pc = "dlRead", !.resp = TRUE, !.total = cl, !.bodyLen = bl, !.bodyLeft = bl]

\* Download up to its loop: the request, and the check of the declared length
DownloadStart(ch, cl, bl) ==
    IF cl = 0
    THEN [ch EXCEPT !.pc = "sendDlMsg", !.msg = "contentlength", !.dl = "err",
                    !.resp = TRUE, !.total = cl, !.bodyLen = bl, !.bodyLeft = bl]
    ELSE [ch EXCEPT !.pc = "dlRead", !.resp = TRUE, !.total = cl,
                    !.bodyLen = bl, !.bodyLeft = bl]

\* downloadCmd up to the loop of Download: the file is selected, the zero
\* File means no match; the temporary file is created; Download is called
DownloadCmd(c) ==
    /\ Running(c)
    /\ chains[c].pc = "downloadCmd"
    /\ LET ch == chains[c]
           dlf == SelectFile(versions, ch.choice, ZeroFile)
           tmp == [ch EXCEPT !.dlf = dlf, !.file = "open", !.calls = ch.calls + 1]
       IN IF dlf = ZeroFile
          THEN /\ Set(c, [ch EXCEPT !.pc = "sendDlMsg", !.msg = "nomatch", !.dl = "err"])
               /\ UNCHANGED tempFiles
          ELSE \/ /\ MayFail
                  /\ Set(c, [ch EXCEPT !.pc = "sendDlMsg", !.msg = "createtemp", !.dl = "err"])
                  /\ UNCHANGED tempFiles
               \/ /\ MayFail
                  /\ Set(c, [tmp EXCEPT !.pc = "sendDlMsg", !.msg = "transport", !.dl = "err"])
                  /\ tempFiles' = tempFiles + 1
               \/ /\ \E cl \in ContentLengths : \E bl \in BodyLens(cl) :
                        Set(c, DownloadStart(tmp, cl, bl))
                  /\ tempFiles' = tempFiles + 1
    /\ UNCHANGED <<versions, fetchErr, listIndex, choice, status, err, percent,
                   loop, quitPending, exited, exitCode, installDir, env, call>>

\* the errors a Read of nr bytes can return: a nil error needs a byte, and
\* io.EOF the end of the body; any Read can fail
ReadErrs(ch, nr) ==
    (IF MayFail THEN {"err"} ELSE {})
    \cup (IF nr > 0 THEN {"nil"} ELSE {})
    \cup (IF ch.bodyLeft = nr THEN {"EOF"} ELSE {})

\* buf[0:n] after a Read that started at body position pos
Buf(pos, n) == [i \in 1..n |-> pos + i]

\* Download: one Read into the buffer and, when it brought bytes, the Write
\* of them, the update of downloaded and the call of onProgress
DlRead(c) ==
    /\ Running(c)
    /\ chains[c].pc = "dlRead"
    /\ LET ch == chains[c]
       IN \E nr \in 0..ch.bodyLeft : \E re \in ReadErrs(ch, nr) :
             LET rd == [ch EXCEPT !.reads = ch.reads + 1, !.bodyLeft = ch.bodyLeft - nr,
                                  !.rdErr = re, !.wrErr = FALSE]
             IN IF nr > 0
                THEN \E nw \in (IF MayFail THEN 0..nr ELSE {nr}) :
                        Set(c, [rd EXCEPT !.pc = "dlProgress",
                                          !.written = ch.written + nw,
                                          !.out = ch.out \o
                                              Buf(ch.bodyLen - ch.bodyLeft, nw),
                                          !.downloaded = ch.downloaded + nw,
                                          !.emitted = ch.emitted + 1,
                                          !.wrErr = (nw < nr)])
                ELSE IF re = "EOF"
                     THEN Set(c, [rd EXCEPT !.pc = "sendDlMsg", !.msg = "", !.dl = "ok"])
                     ELSE Set(c, [rd EXCEPT !.pc = "sendDlMsg", !.msg = "read", !.dl = "err"])
    /\ UNCHANGED <<versions, fetchErr, listIndex, choice, status, err, percent,
                   loop, quitPending, exited, exitCode, installDir, tempFiles, env, call>>

\* the first pass of Decompress counting every entry
RECURSIVE CountAll(_, _)
CountAll(a, n) ==
    IF n = 0 THEN 0
    ELSE CountAll(a, n - 1) + 1

\* regular-file entries among the first n entries of an archive
RECURSIVE CountReg(_, _)
CountReg(a, n) ==
    IF n = 0 THEN 0
    ELSE CountReg(a, n - 1) + (IF a[n] = "reg" THEN 1 ELSE 0)

\* extractCmd dropping the error of a step and returning doneMsg
ExtractFailedSwallowed(ch, e) ==
    [ch EXCEPT !.pc = "sendExMsg", !.msg = "",
               !.file = IF ch.file = "nil" THEN "nil" ELSE "closed"]

\* extractCmd calling Decompress after a step that failed
ExtractFailedGoesOn(ch, e) ==
    [ch EXCEPT !.pc = "dcEntry", !.decompress = "running"]

\* extractCmd returns an errMsg: the deferred Close of m.file runs
ExtractFailed(ch, e) ==
    [ch EXCEPT !.pc = "sendExMsg", !.msg = e,
               !.file = IF ch.file = "nil" THEN "nil" ELSE "closed"]

\* extractCmd up to the second pass of Decompress: the rewind of m.file (a
\* nil m.file makes Seek return an error), os.RemoveAll("/usr/local/go"),
\* and of Decompress MkdirAll, gzip.NewReader and the counting pass, in
\* which a tr.Next error other than io.EOF leaves header nil, so that the
\* read of header.Typeflag is a nil dereference and the process dies
ExtractCmd(c) ==
    /\ Running(c)
    /\ chains[c].pc = "extractCmd"
    /\ LET ch == chains[c]
           rw == [ch EXCEPT !.rewound = TRUE]
           rm == [rw EXCEPT !.removed = TRUE, !.decompress = "running"]
       IN IF ch.file = "nil"
          THEN /\ Set(c, ExtractFailed(ch, "seek"))
               /\ UNCHANGED <<installDir, exited, exitCode>>
          ELSE \/ /\ MayFail
                  /\ Set(c, ExtractFailed(ch, "seek"))
                  /\ UNCHANGED <<installDir, exited, exitCode>>
               \/ /\ MayFail
                  /\ Set(c, ExtractFailed(rw, "remove"))
                  /\ installDir' \in {installDir, "partial"}
                  /\ UNCHANGED <<exited, exitCode>>
               \/ /\ MayFail
                  /\ Set(c, [ExtractFailed(rm, "decompress") EXCEPT !.decompress = "err"])
                  /\ installDir' = "absent"
                  /\ UNCHANGED <<exited, exitCode>>
               \/ /\ MayFail
                  /\ Set(c, [rm EXCEPT !.pc = "panic", !.decompress = "err"])
                  /\ installDir' = "absent"
                  /\ exited' = TRUE
                  /\ exitCode' = 2
               \/ /\ ch.complete
                  /\ Set(c, [rm EXCEPT !.pc = "dcEntry", !.entry = 0, !.countFiles = 0,
                                       !.totalFiles = CountReg(Archive, Len(Archive))])
                  /\ installDir' = "absent"
                  /\ UNCHANGED <<exited, exitCode>>
    /\ UNCHANGED <<versions, fetchErr, listIndex, choice, status, err, percent,
                   loop, quitPending, tempFiles, env, call>>

\* Decompress, second pass: one entry is created under the destination, or
\* fails, and onProgress is called; io.EOF after the last entry returns nil
DcEntry(c) ==
    /\ Running(c)
    /\ chains[c].pc = "dcEntry"
    /\ LET ch == chains[c]
       IN IF ch.entry = Len(Archive)
          THEN /\ Set(c, [ch EXCEPT !.pc = "sendExMsg", !.msg = "",
                                    !.decompress = "ok", !.file = "closed"])
               /\ installDir' = "new"
          ELSE \/ /\ Set(c, [ch EXCEPT !.pc = "dcProgress", !.entry = ch.entry + 1,
                                       !.countFiles = ch.countFiles +
                                           (IF Archive[ch.entry + 1] = "reg" THEN 1 ELSE 0)])
                  /\ installDir' = "partial"
               \/ /\ MayFail
                  /\ Set(c, [ExtractFailed(ch, "decompress") EXCEPT !.decompress = "err"])
                  /\ installDir' \in {installDir, "partial"}
    /\ UNCHANGED <<versions, fetchErr, listIndex, choice, status, err, percent,
                   loop, quitPending, exited, exitCode, tempFiles, env, call>>

\* ------------------------------------------------------------------ spec
Next ==
    \/ KeyCtrlC
    \/ KeyEnter
    \/ KeyMove
    \/ KeyQ
    \/ HandleQuit
    \/ Exit
    \/ \E c \in 1..Len(chains) : SendStatus(c)
    \/ \E c \in 1..Len(chains) : SendErr(c)
    \/ \E c \in 1..Len(chains) : SendDone(c)
    \/ \E c \in 1..Len(chains) : SendProgress(c)
    \/ \E c \in 1..Len(chains) : SendNil(c)
    \/ \E c \in 1..Len(chains) : DownloadCmd(c)
    \/ \E c \in 1..Len(chains) : DlRead(c)
    \/ \E c \in 1..Len(chains) : ExtractCmd(c)
    \/ \E c \in 1..Len(chains) : DcEntry(c)

Spec == Init /\ [][Next]_vars

\* the steps of chain c, the worker's and the loop's receipt of its messages
ChainStep(c) ==
    \/ SendStatus(c) \/ SendErr(c) \/ SendDone(c) \/ SendProgress(c)
    \/ SendNil(c) \/ DownloadCmd(c) \/ DlRead(c)
    \/ ExtractCmd(c) \/ DcEntry(c)

\* the run of the end-to-end scenario: nothing fails and no quit key is
\* pressed; the Go scheduler runs every goroutine that can take a step
CleanNext ==
    \/ KeyEnter
    \/ KeyMove
    \/ HandleQuit
    \/ Exit
    \/ \E c \in 1..Len(chains) : SendStatus(c)
    \/ \E c \in 1..Len(chains) : SendDone(c)
    \/ \E c \in 1..Len(chains) : SendProgress(c)
    \/ \E c \in 1..Len(chains) : SendNil(c)
    \/ \E c \in 1..Len(chains) : DownloadCmd(c)
    \/ \E c \in 1..Len(chains) : DlRead(c)
    \/ \E c \in 1..Len(chains) : ExtractCmd(c)
    \/ \E c \in 1..Len(chains) : DcEntry(c)

CleanInit == env = "clean" /\ Start

CleanSpec ==
    /\ CleanInit
    /\ [][CleanNext]_vars
    /\ \A c \in 1..MaxChains : WF_vars(ChainStep(c))
    /\ WF_vars(HandleQuit)
    /\ WF_vars(Exit)

\* ------------------------------------------------------------ Decompress
\* sequences over S of length at most n
SeqsUpTo(S, n) == UNION {[1..k -> S] : k \in 0..n}

\* dst of the call in extractCmd, as path components
Dst == <<"usr", "local">>

\* header.Name of an entry, as path components
Names == {<<"README">>, <<"go">>, <<"go", "VERSION">>, <<"..", "evil">>}
Contents == {"a", "b"}

\* tar entries: directories, and regular files with their bytes
TarEntries ==
    {[Typeflag |-> "dir", Name |-> n, Data |-> ""] : n \in Names}
        \cup {[Typeflag |-> "reg", Name |-> n, Data |-> d] : n \in Names, d \in Contents}

\* the archives of at most n entries
Archives(n) == SeqsUpTo(TarEntries, n)

\* filepath.Clean of a rooted path: ".." drops the component before it
RECURSIVE Clean(_, _)
Clean(acc, p) ==
    IF p = <<>> THEN acc
    ELSE IF Head(p) = ".."
         THEN Clean(IF acc = <<>> THEN acc ELSE SubSeq(acc, 1, Len(acc) - 1), Tail(p))
         ELSE Clean(Append(acc, Head(p)), Tail(p))

\* filepath.Join(dst, header.Name)
Join(dst, name) == Clean(<<>>, dst \o name)

Parent(p) == SubSeq(p, 1, Len(p) - 1)
Prefixes(p) == {SubSeq(p, 1, k) : k \in 0..Len(p)}

\* the paths Decompress can touch
AllPaths == UNION {Prefixes(Join(Dst, n)) : n \in Names}

\* the file system when Decompress has made dst: "none", "dir", or the bytes
\* of a regular file
EmptyRoot == [p \in AllPaths |-> IF p \in Prefixes(Dst) THEN "dir" ELSE "none"]

\* os.MkdirAll: nothing to do for a directory, an error for a file in the
\* way, and otherwise the parents first
RECURSIVE MkdirAll(_, _)
MkdirAll(fs, p) ==
    IF fs[p] = "dir" THEN [err |-> FALSE, fs |-> fs]
    ELSE IF fs[p] # "none" THEN [err |-> TRUE, fs |-> fs]
    ELSE LET up == MkdirAll(fs, Parent(p))
         IN IF up.err THEN up
            ELSE [err |-> FALSE, fs |-> [up.fs EXCEPT ![p] = "dir"]]

\* os.OpenFile(target, O_CREATE|O_TRUNC|O_RDWR) fails when the parent is not
\* a directory or the target is one
OpenFails(fs, p) == fs[Parent(p)] # "dir" \/ fs[p] = "dir"

\* the second pass of Decompress over the entries a: the target is joined to
\* dst, a directory is made unless Stat finds the target, a regular file is
\* created and filled, and onProgress is called after every entry
RECURSIVE SecondPass(_, _, _, _, _)
SecondPass(a, fs, countFiles, totalFiles, events) ==
    IF a = <<>>
    THEN [err |-> "nil", fs |-> fs, countFiles |-> countFiles,
          totalFiles |-> totalFiles, events |-> events]
    ELSE LET header == Head(a)
             target == Join(Dst, header.Name)
             failed == [err |-> "io", fs |-> fs, countFiles |-> countFiles,
                        totalFiles |-> totalFiles, events |-> events]
         IN IF header.Typeflag = "dir"
            THEN IF fs[target] # "none"
                 THEN SecondPass(Tail(a), fs, countFiles, totalFiles,
                                 Append(events, <<countFiles, totalFiles>>))
                 ELSE LET mk == MkdirAll(fs, target)
                      IN IF mk.err THEN failed
                         ELSE SecondPass(Tail(a), mk.fs, countFiles, totalFiles,
                                         Append(events, <<countFiles, totalFiles>>))
            ELSE IF OpenFails(fs, target) THEN failed
                 ELSE SecondPass(Tail(a), [fs EXCEPT ![target] = header.Data],
                                 countFiles + 1, totalFiles,
                                 Append(events, <<countFiles + 1, totalFiles>>))

\* Decompress(dst, r, onProgress) on a well-formed archive: the counting
\* pass, then the second pass from the start of the archive
Decompress(a) ==
    SecondPass(a, EmptyRoot, 0,
               CountReg([i \in 1..Len(a) |-> a[i].Typeflag], Len(a)), <<>>)

\* -------------------------------------------------------------- Download
\* len(buf), scaled down: the most bytes one Read brings
BufSize == 2

\* int(resp.ContentLength): none declared (-1), zero, and lengths that the
\* chunks fall short of, meet and exceed
DeclaredLengths == {-1, 0, 1, 2, 4}

\* one iteration's outcomes: Read brings nr bytes with errRead, and Write
\* takes nw of them, with an error exactly when nw < nr
ReadOutcomes ==
    {[nr |-> nr, nw |-> nw, errRead |-> e] :
        nr \in 0..BufSize, nw \in 0..BufSize, e \in {"nil", "EOF", "err"}}

\* what Download meets: client.Do fails, or a response with its declared
\* length and the outcomes of the Reads of its body, at most n of them
DownloadInputs(n) ==
    {[doErr |-> TRUE, total |-> 0, reads |-> <<>>]}
        \cup {[doErr |-> FALSE, total |-> t, reads |-> rs] :
                 t \in DeclaredLengths,
                 rs \in SeqsUpTo({o \in ReadOutcomes : o.nw <= o.nr}, n)}

\* downloaded += nw with every chunk but the last one forgotten
DownloadedLastChunk(downloaded, nw) == nw

\* downloaded += nw
Downloaded(downloaded, nw) == downloaded + nw

\* the loop of Download: the events are the arguments of onProgress as
\* <<downloaded, total>>; after the last outcome the body has ended, and
\* Read returns 0 and io.EOF
RECURSIVE DownloadLoop(_, _, _, _, _)
DownloadLoop(reads, total, downloaded, written, events) ==
    IF reads = <<>>
    THEN [err |-> "nil", events |-> events, written |-> written]
    ELSE LET r == Head(reads)
             d == IF r.nr > 0 THEN Downloaded(downloaded, r.nw) ELSE downloaded
             w == IF r.nr > 0 THEN written + r.nw ELSE written
             ev == IF r.nr > 0 THEN Append(events, <<d, total>>) ELSE events
         IN IF r.nr > 0 /\ r.nw < r.nr
            THEN [err |-> "write", events |-> ev, written |-> w]
            ELSE IF r.errRead = "err"
            THEN [err |-> "read", events |-> ev, written |-> w]
            ELSE IF r.errRead = "EOF"
            THEN [err |-> "nil", events |-> ev, written |-> w]
            ELSE DownloadLoop(Tail(reads), total, d, w, ev)

\* Download(ctx, dlFile, outFile)
Download(in) ==
    IF in.doErr THEN [err |-> "transport", events |-> <<>>, written |-> 0]
    ELSE IF in.total = 0 THEN [err |-> "contentlength", events |-> <<>>, written |-> 0]
    ELSE DownloadLoop(in.reads, in.total, 0, 0, <<>>)

\* ----------------------------------------------------------- GetVersions
\* the status codes of a response: the edges of 200..299, and the 500 of
\* TestGetVersionsUnavailable
StatusCodes == {199, 200, 299, 300, 500}

\* the body as JSON tokens: brackets, comma, the text of a release object
\* ("R1", "R2") and a byte that starts no JSON value
Objects == {"R1", "R2"}
Tokens == {"[", "]", ",", "x"} \cup Objects

\* the bodies of at most n tokens
Bodies(n) == SeqsUpTo(Tokens, n)

\* the members of the release objects, as TestGetVersions writes them
WireObject(t) ==
    IF t = "R1"
    THEN [version |-> "go1.20.2", stable |-> TRUE,
          files |-> <<[filename |-> "go1.20.2.linux-amd64.tar.gz", os |-> "linux",
                       arch |-> "amd64", version |-> "go1.20.2", sha256 |-> "4eaea3",
                       size |-> 100107955, kind |-> "archive"]>>]
    ELSE [version |-> "go1.19.7", stable |-> FALSE,
          files |-> <<[filename |-> "go1.19.7.linux-amd64.tar.gz", os |-> "linux",
                       arch |-> "amd64", version |-> "go1.19.7", sha256 |-> "7a7572",
                       size |-> 149010475, kind |-> "archive"],
                      [filename |-> "go1.19.7.src.tar.gz", os |-> "",
                       arch |-> "", version |-> "go1.19.7", sha256 |-> "775bdf",
                       size |-> 26355120, kind |-> "source"]>>]

\* a File decoded without its kind member
DecodeFileNoKind(o) ==
    [Filename |-> o.filename, Os |-> o.os, Arch |-> o.arch, Version |-> o.version,
     Sha256 |-> o.sha256, Size |-> o.size, Kind |-> ""]

\* the json tags of File: each member sets the field of its tag
DecodeFile(o) ==
    [Filename |-> o.filename, Os |-> o.os, Arch |-> o.arch, Version |-> o.version,
     Sha256 |-> o.sha256, Size |-> o.size, Kind |-> o.kind]

\* the json tags of Release
DecodeRelease(o) ==
    [Version |-> o.version, Stable |-> o.stable,
     Files |-> [i \in 1..Len(o.files) |-> DecodeFile(o.files[i])]]

\* the elements of the array after "[": an object or "]" first, then "," or
\* "]" after an object and an object after ","; the value ends at its "]"
\* and what follows it in the stream is not read
RECURSIVE DecodeElements(_, _, _)
DecodeElements(rest, results, expect) ==
    IF rest = <<>> THEN [results |-> <<>>, err |-> "unexpected EOF"]
    ELSE LET t == Head(rest)
         IN IF t \in Objects /\ expect \in {"first", "value"}
            THEN DecodeElements(Tail(rest),
                                Append(results, DecodeRelease(WireObject(t))), "sep")
            ELSE IF t = "]" /\ expect \in {"first", "sep"}
            THEN [results |-> results, err |-> "nil"]
            ELSE IF t = "," /\ expect = "sep"
            THEN DecodeElements(Tail(rest), results, "value")
            ELSE [results |-> <<>>, err |-> "syntax"]

\* json.NewDecoder(resp.Body).Decode(&results): the next JSON value of the
\* stream is decoded into the slice
Decode(body) ==
    IF body = <<>> THEN [results |-> <<>>, err |-> "EOF"]
    ELSE IF Head(body) = "[" THEN DecodeElements(Tail(body), <<>>, "first")
    ELSE IF Head(body) \in Objects THEN [results |-> <<>>, err |-> "type"]
    ELSE [results |-> <<>>, err |-> "syntax"]

\* what client.Do can hand to GetVersions: an error, or a response with a
\* body of at most n tokens
Responses(n) ==
    {[err |-> TRUE, StatusCode |-> 0, Body |-> <<>>]}
        \cup {[err |-> FALSE, StatusCode |-> sc, Body |-> b] :
                 sc \in StatusCodes, b \in Bodies(n)}

GetVersions(resp) ==
    IF resp.err THEN [results |-> <<>>, err |-> "transport"]
    ELSE IF resp.StatusCode < 200 \/ resp.StatusCode >= 300
         THEN [results |-> <<>>, err |-> "not valid response status"]
         ELSE Decode(resp.Body)

\* ------------------------------------------------------------- ByRelease
\* the version strings of TestReleaseSort, with go1.18.9 below go1.18.10 and
\* go1.20.0, which compares equal to go1.20
VersionStrings ==
    {"go1.20.2", "go1.20", "go1.20.0", "go1.19.7", "go1.18.10", "go1.18.9"}

\* the bytes of a version string
Chars(v) ==
    CASE v = "go1.20.2" -> <<"g", "o", "1", ".", "2", "0", ".", "2">>
      [] v = "go1.20" -> <<"g", "o", "1", ".", "2", "0">>
      [] v = "go1.20.0" -> <<"g", "o", "1", ".", "2", "0", ".", "0">>
      [] v = "go1.19.7" -> <<"g", "o", "1", ".", "1", "9", ".", "7">>
      [] v = "go1.18.10" -> <<"g", "o", "1", ".", "1", "8", ".", "1", "0">>
      [] v = "go1.18.9" -> <<"g", "o", "1", ".", "1", "8", ".", "9">>
      [] OTHER -> <<>>

\* the bytes that occur, in byte order
ByteOrder ==
    <<"-", ".", "0", "1", "2", "3", "4", "5", "6", "7", "8", "9", "g", "o">>
Ord(c) == CHOOSE i \in 1..Len(ByteOrder) : ByteOrder[i] = c
IsDigit(c) == Ord(c) >= Ord("0") /\ Ord(c) <= Ord("9")
IsLower(c) == Ord(c) > Ord("9")

\* the comparison of two strings byte by byte
RECURSIVE StrCmp(_, _)
StrCmp(x, y) ==
    IF x = <<>> /\ y = <<>> THEN 0
    ELSE IF x = <<>> THEN -1
    ELSE IF y = <<>> THEN 1
    ELSE IF Head(x) = Head(y) THEN StrCmp(Tail(x), Tail(y))
    ELSE IF Ord(Head(x)) < Ord(Head(y)) THEN -1 ELSE 1

\* go/version: decimal strings compare by length, then byte by byte
CmpInt(x, y) ==
    IF x = y THEN 0
    ELSE IF Len(x) < Len(y) THEN -1
    ELSE IF Len(x) > Len(y) THEN 1
    ELSE IF StrCmp(x, y) < 0 THEN -1 ELSE 1

RECURSIVE LeadingDigits(_)
LeadingDigits(x) ==
    IF x = <<>> \/ ~IsDigit(Head(x)) THEN 0 ELSE 1 + LeadingDigits(Tail(x))

RECURSIVE LeadingLetters(_)
LeadingLetters(x) ==
    IF x = <<>> \/ IsDigit(Head(x)) THEN 0 ELSE 1 + LeadingLetters(Tail(x))

\* go/version cutInt: the leading decimal of x, without a leading zero
CutInt(x) ==
    LET i == LeadingDigits(x)
    IN IF i = 0 \/ (i > 1 /\ x[1] = "0")
       THEN [n |-> <<>>, rest |-> <<>>, ok |-> FALSE]
       ELSE [n |-> SubSeq(x, 1, i), rest |-> SubSeq(x, i + 1, Len(x)), ok |-> TRUE]

NoVersion == [Major |-> <<>>, Minor |-> <<>>, Patch |-> <<>>, Kind |-> <<>>, Pre |-> <<>>]

\* the prerelease part of a version: lower-case letters, then a decimal
ParsePre(v, x) ==
    LET i == LeadingLetters(x)
        pre == CutInt(SubSeq(x, i + 1, Len(x)))
    IN IF i = 0 \/ \E k \in 1..i : ~IsLower(x[k]) THEN NoVersion
       ELSE IF i = Len(x) THEN [v EXCEPT !.Kind = x]
       ELSE IF ~pre.ok \/ pre.rest # <<>> THEN NoVersion
       ELSE [v EXCEPT !.Kind = SubSeq(x, 1, i), !.Pre = pre.n]

\* go/version parse: major, then ".minor", then ".patch" or a prerelease; a
\* missing patch is "0" below 1.21
Parse(x) ==
    LET major == CutInt(x)
        minor == CutInt(Tail(major.rest))
        patch == CutInt(Tail(minor.rest))
        v1 == [NoVersion EXCEPT !.Major = major.n]
        v2 == [v1 EXCEPT !.Minor = minor.n]
    IN IF ~major.ok THEN NoVersion
       ELSE IF major.rest = <<>>
            THEN [v1 EXCEPT !.Minor = <<"0">>, !.Patch = <<"0">>]
       ELSE IF Head(major.rest) # "." THEN NoVersion
       ELSE IF ~minor.ok THEN NoVersion
       ELSE IF minor.rest = <<>>
            THEN IF CmpInt(minor.n, <<"2", "1">>) < 0
                 THEN [v2 EXCEPT !.Patch = <<"0">>]
                 ELSE v2
       ELSE IF Head(minor.rest) = "."
            THEN IF ~patch.ok \/ patch.rest # <<>> THEN NoVersion
                 ELSE [v2 EXCEPT !.Patch = patch.n]
       ELSE ParsePre(v2, minor.rest)

\* go/version stripGo: the string up to a "-", without its "go" prefix
RECURSIVE UpToDash(_)
UpToDash(x) ==
    IF x = <<>> \/ Head(x) = "-" THEN <<>> ELSE <<Head(x)>> \o UpToDash(Tail(x))

StripGo(x) ==
    LET v == UpToDash(x)
    IN IF Len(v) < 2 \/ SubSeq(v, 1, 2) # <<"g", "o">> THEN <<>>
       ELSE SubSeq(v, 3, Len(v))

\* version.Compare(x, y): -1, 0 or +1
Compare(x, y) ==
    LET vx == Parse(StripGo(Chars(x)))
        vy == Parse(StripGo(Chars(y)))
    IN IF CmpInt(vx.Major, vy.Major) # 0 THEN CmpInt(vx.Major, vy.Major)
       ELSE IF CmpInt(vx.Minor, vy.Minor) # 0 THEN CmpInt(vx.Minor, vy.Minor)
       ELSE IF CmpInt(vx.Patch, vy.Patch) # 0 THEN CmpInt(vx.Patch, vy.Patch)
       ELSE IF StrCmp(vx.Kind, vy.Kind) # 0 THEN StrCmp(vx.Kind, vy.Kind)
       ELSE CmpInt(vx.Pre, vy.Pre)

\* ByRelease.Less
Less(a, i, j) == Compare(a[i].Version, a[j].Version) > 0

\* the slices of TestReleaseSort's kind: at most n releases with a version
\* only
SortInputs(n) ==
    SeqsUpTo({[Version |-> v, Stable |-> FALSE, Files |-> <<>>] : v \in VersionStrings}, n)

IndexOrders(n) ==
    {p \in [1..n -> 1..n] : \A i, j \in 1..n : p[i] = p[j] => i = j}

\* sort.Sort(ByRelease(a)): the elements of a in an order in which no
\* element is Less than one before it; the order of elements of which
\* neither is Less than the other is not specified
SortOutcomes(a) ==
    {[i \in 1..Len(a) |-> a[p[i]]] :
        p \in {q \in IndexOrders(Len(a)) :
                  \A i, j \in 1..Len(a) : i < j => ~Less(a, q[j], q[i])}}

\* ------------------------------------------------- functions on their own
Pending(fn) == call.fn = fn /\ call.ret = <<>>

Returns(r) == call' = [call EXCEPT !.ret = <<r>>]

ProgramIdle ==
    UNCHANGED <<versions, fetchErr, listIndex, choice, status, err, percent,
                loop, quitPending, exited, exitCode, chains, installDir, tempFiles, env>>

CallDecompress ==
    /\ Pending("Decompress")
    /\ Returns(Decompress(call.arg))
    /\ ProgramIdle

CallGetVersions ==
    /\ Pending("GetVersions")
    /\ Returns(GetVersions(call.arg))
    /\ ProgramIdle

\* the files of TestFilesFilter's kind, and the predicates in any order
WindowsFile == [Filename |-> "go1.20.5.windows-amd64.msi", Os |-> "windows", Arch |-> "amd64"]

FilterInputs(n) ==
    {[files |-> fs, specs |-> ss] :
        fs \in SeqsUpTo({LinuxFileA, LinuxArmFile, WindowsFile, ZeroFile}, n),
        ss \in SeqsUpTo({"linux", "amd64"}, 2)}

CallFilter ==
    /\ Pending("Filter")
    /\ Returns(Filter(call.arg.files, call.arg.specs))
    /\ ProgramIdle

\* the platforms the tool can run on: runtime.GOOS and runtime.GOARCH
Platforms ==
    {[goos |-> "linux", goarch |-> "amd64"], [goos |-> "linux", goarch |-> "arm64"],
     [goos |-> "darwin", goarch |-> "arm64"]}

\* the selection of downloadCmd, for a catalog, a choice and a platform
SelectInputs ==
    {[versions |-> vs, choice |-> ch, platform |-> pf] :
        vs \in Catalogs \cup CleanCatalogs,
        ch \in {"go1.20.2", "go1.19.7", ""},
        pf \in Platforms}

CallSelectFile ==
    /\ Pending("SelectFile")
    /\ Returns(SelectFile(call.arg.versions, call.arg.choice, ZeroFile))
    /\ ProgramIdle

CallSort ==
    /\ Pending("Sort")
    /\ \E r \in SortOutcomes(call.arg) : Returns(r)
    /\ ProgramIdle

CallDownload ==
    /\ Pending("Download")
    /\ Returns(Download(call.arg))
    /\ ProgramIdle

\* the calls of Download, with at most n Reads
DownloadCalls(n) ==
    {[fn |-> "Download", arg |-> a, ret |-> <<>>] : a \in DownloadInputs(n)}

\* the calls of the functions with the arguments of the tests' kind
Calls(entries, tokens, releases) ==
    {[fn |-> "Decompress", arg |-> a, ret |-> <<>>] : a \in Archives(entries)}
        \cup {[fn |-> "GetVersions", arg |-> r, ret |-> <<>>] : r \in Responses(tokens)}
        \cup {[fn |-> "Sort", arg |-> a, ret |-> <<>>] : a \in SortInputs(releases)}
        \cup {[fn |-> "Filter", arg |-> a, ret |-> <<>>] : a \in FilterInputs(MaxFiles)}
        \cup {[fn |-> "SelectFile", arg |-> a, ret |-> <<>>] : a \in SelectInputs}

UnitInit ==
    /\ env = "none"
    /\ versions = <<>>
    /\ fetchErr = FALSE
    /\ listIndex = 0
    /\ choice = ""
    /\ status = "Choosing"
    /\ err = ""
    /\ percent = <<0, 1>>
    /\ loop = "running"
    /\ quitPending = FALSE
    /\ exited = FALSE
    /\ exitCode = 0
    /\ chains = <<>>
    /\ installDir = "old"
    /\ tempFiles = 0
    /\ \/ call \in Calls(MaxEntries, MaxBody, MaxReleases)
       \/ call \in DownloadCalls(MaxReads)

UnitNext ==
    \/ CallDecompress
    \/ CallGetVersions
    \/ CallSort
    \/ CallFilter
    \/ CallSelectFile
    \/ CallDownload

UnitSpec == UnitInit /\ [][UnitNext]_vars

\* ---------------------------------------------------------------- claims
Chains == 1..Len(chains)

Handled(c, e) == \E i \in 1..Len(chains[c].handled) : chains[c].handled[i] = e

\* the confirmed release of chain c has no file for the platform
NoMatch(c) == SelectFile(versions, chains[c].choice, ZeroFile) = ZeroFile

\* C1: the loop handles the Extracting status event of a run, and status
\* becomes Extracting, only if the downloadCmd of that run returned no error.
C1_ExtractingOnlyAfterCleanDownload ==
    \A c \in Chains : Handled(c, "Extracting") => chains[c].dl = "ok"

\* C2: /usr/local/go is removed and Decompress is called only after Download
\* of the same run returned nil; when Download returned an error the install
\* directory is not removed and Decompress is not called in that run.
C2_ExtractOnlyAfterCleanDownload ==
    \A c \in Chains :
        (chains[c].removed \/ chains[c].decompress # "none") => chains[c].dl = "ok"

\* C3: when the confirmed release has no matching file, status is never
\* Downloading in that run, no temporary file is created and Download is
\* never called.
C3_NoMatchNeverDownloading ==
    \A c \in Chains :
        NoMatch(c) => /\ ~Handled(c, "Downloading")
                      /\ chains[c].file = "nil"
                      /\ chains[c].calls = 0

\* C4: when the catalog request at startup failed, status never becomes
\* Downloading.
C4_FetchErrorNeverDownloading == fetchErr => status # "Downloading"

\* C5: once ctrl+c was handled in a state that is not terminal (no completion
\* event was handled before), status stays Quitting.
C5_QuittingStays ==
    [][(status = "Quitting" /\ \A c \in Chains : ~Handled(c, "done"))
          => status' = "Quitting"]_vars

\* C6: the exit status is zero when the run ends in Completed and non-zero
\* when it ends after an error event was handled.
C6_ExitStatus ==
    exited => /\ (loop = "stopped" /\ status = "Completed" /\ err = "") => exitCode = 0
              /\ err # "" => exitCode # 0

\* C7: the completion event is posted only after the rewind, the removal of
\* the install directory and Decompress have returned without error, and
\* status is Completed only when such an event has been handled.
C7_CompletedOnlyOnCleanInstall ==
    /\ \A c \in Chains :
          ((chains[c].pc = "sendExMsg" /\ chains[c].msg = "") \/ Handled(c, "done"))
             => (chains[c].rewound /\ chains[c].removed /\ chains[c].decompress = "ok")
    /\ status = "Completed" => \E c \in Chains : Handled(c, "done")

C7_Witness ==
    /\ status = "Completed"
    /\ \E c \in Chains : Handled(c, "done") /\ chains[c].decompress = "ok"

\* C8: once status is Completed, no event the loop handles changes status or
\* starts a new chain.
C8_CompletedIsTerminal ==
    [][status = "Completed" => (status' = "Completed" /\ Len(chains') = Len(chains))]_vars

\* C9: in a run where nothing fails and no quit key is pressed, a confirmed
\* release leads to the loop handling Downloading, Extracting and the
\* completion event in that order, and to the process exiting with code 0.
C9_CleanRunCompletes ==
    (Len(chains) > 0) ~>
        (/\ exited
         /\ exitCode = 0
         /\ \E c \in Chains : chains[c].handled = <<"Downloading", "Extracting", "done">>)

C9_Witness ==
    /\ env = "clean"
    /\ exited
    /\ exitCode = 0
    /\ \E c \in Chains : chains[c].handled = <<"Downloading", "Extracting", "done">>

\* C10: Download returns the ContentLength error for a response that declares
\* length 0, having called Read on the body, written to the destination and
\* called onProgress zero times.
C10_ZeroLengthFailsAtOnce ==
    \A c \in Chains :
        (chains[c].resp /\ chains[c].total = 0)
           => /\ chains[c].pc = "sendDlMsg"
              /\ chains[c].msg = "contentlength"
              /\ chains[c].reads = 0
              /\ chains[c].written = 0
              /\ chains[c].emitted = 0

C10_Witness ==
    \E c \in Chains : /\ chains[c].resp
                      /\ chains[c].total = 0
                      /\ chains[c].pc = "sendDlMsg"
                      /\ chains[c].msg = "contentlength"

\* C11: Download returns the unknown-length error for a response that
\* declares no length (ContentLength -1), having called Read on the body and
\* written to the destination zero times.
C11_AbsentLengthFailsAtOnce ==
    \A c \in Chains :
        (chains[c].resp /\ chains[c].total < 0)
           => /\ chains[c].pc = "sendDlMsg"
              /\ chains[c].msg = "contentlength"
              /\ chains[c].reads = 0
              /\ chains[c].written = 0

\* the quotient f[1] / f[2] of a progress event lies in [0,1]
InUnitInterval(f) ==
    \/ f[2] > 0 /\ 0 <= f[1] /\ f[1] <= f[2]
    \/ f[2] < 0 /\ f[2] <= f[1] /\ f[1] <= 0

\* C12: every progress fraction Download hands to onProgress lies in [0,1].
C12_DownloadFractionInUnitInterval ==
    \A c \in Chains :
        chains[c].pc = "dlProgress" => InUnitInterval(Fraction(chains[c]))

DistinctVersions(vs) ==
    \A i, j \in 1..Len(vs) : vs[i].Version = vs[j].Version => i = j

\* file i of a release is its first file for linux/amd64
IsFirstMatch(files, i) ==
    /\ files[i].Os = "linux" /\ files[i].Arch = "amd64"
    /\ \A j \in 1..(i - 1) : ~(files[j].Os = "linux" /\ files[j].Arch = "amd64")

\* C20: for a catalog of distinct release versions, the File handed to
\* Download is the first file, in catalog order, of the confirmed release
\* that is for linux and amd64; it is not the zero File.
C20_FirstMatchingFileOfChoice ==
    \A c \in Chains :
        (DistinctVersions(versions) /\ chains[c].calls > 0)
           => /\ chains[c].dlf # ZeroFile
              /\ \E r \in 1..Len(versions) :
                    /\ versions[r].Version = chains[c].choice
                    /\ \E i \in 1..Len(versions[r].Files) :
                          /\ IsFirstMatch(versions[r].Files, i)
                          /\ chains[c].dlf = versions[r].Files[i]

C20_Witness ==
    \E c \in Chains :
        /\ chains[c].calls > 0
        /\ chains[c].choice = "go1.20.2"
        /\ chains[c].dlf = LinuxFileA

\* Decompress has returned nil
DecompressedNil ==
    call.fn = "Decompress" /\ call.ret # <<>> /\ call.ret[1].err = "nil"

\* the last entry of archive a with the name of entry i
LastOfName(a, i) == \A j \in (i + 1)..Len(a) : a[j].Name # a[i].Name

\* C14: when Decompress returns nil, every archived relative path exists
\* under the destination root, a regular file with the bytes of its entry,
\* and no path outside the destination root was created or written.
C14_DecompressRecreatesUnderRoot ==
    DecompressedNil =>
        LET a == call.arg
            r == call.ret[1]
        IN /\ \A i \in 1..Len(a) :
                 LastOfName(a, i)
                    => /\ (Dst \o a[i].Name) \in AllPaths
                       /\ r.fs[Dst \o a[i].Name] =
                             (IF a[i].Typeflag = "dir" THEN "dir" ELSE a[i].Data)
           /\ \A p \in AllPaths :
                 r.fs[p] # EmptyRoot[p] => SubSeq(p, 1, Len(Dst)) = Dst

\* C15: when Decompress returns nil for an archive with a regular file, the
\* last progress event is 1.0: the files counted by the second pass equal
\* those counted by the first, whatever the order of the entries.
C15_DecompressEndsAtOne ==
    (DecompressedNil /\ \E i \in 1..Len(call.arg) : call.arg[i].Typeflag = "reg")
       => LET r == call.ret[1]
              last == r.events[Len(r.events)]
          IN /\ r.countFiles = r.totalFiles
             /\ r.events # <<>>
             /\ last[1] = last[2]
             /\ last[2] > 0

C15_Witness ==
    /\ call.fn = "Decompress"
    /\ call.ret # <<>>
    /\ call.ret[1].err = "nil"
    /\ Len(call.arg) > 1
    /\ call.arg[1].Typeflag = "reg"
    /\ call.arg[Len(call.arg)].Typeflag = "dir"

\* GetVersions has returned
GotVersions == call.fn = "GetVersions" /\ call.ret # <<>>

\* the whole body is one JSON array of release objects
WellFormedCatalog(b) ==
    /\ Len(b) >= 2
    /\ b[1] = "[" /\ b[Len(b)] = "]"
    /\ Len(b) > 2 => Len(b) % 2 = 1
    /\ \A k \in 2..(Len(b) - 1) :
          IF k % 2 = 0 THEN b[k] \in Objects ELSE b[k] = ","

\* C16: GetVersions returns an error, and no release, for a status code
\* outside 200-299, for a transport failure and for a body that is not a
\* well-formed catalog; a nil error comes only with a 2xx response.
C16_GetVersionsErrors ==
    GotVersions =>
        LET resp == call.arg
            r == call.ret[1]
            is2xx == ~resp.err /\ resp.StatusCode >= 200 /\ resp.StatusCode <= 299
        IN /\ ~is2xx => (r.err # "nil" /\ r.results = <<>>)
           /\ ~WellFormedCatalog(resp.Body) => r.err # "nil"
           /\ r.err = "nil" => is2xx

\* C17: on success the releases and their files are those the response
\* lists, in its order, every member carried to its field unchanged.
C17_GetVersionsKeepsOrderAndFields ==
    (GotVersions /\ call.ret[1].err = "nil") =>
        LET b == call.arg.Body
            rs == call.ret[1].results
            close == CHOOSE k \in 1..Len(b) :
                        b[k] = "]" /\ \A j \in 1..(k - 1) : b[j] # "]"
        IN /\ Len(rs) = (close - 1) \div 2
           /\ \A i \in 1..Len(rs) :
                 LET o == WireObject(b[2 * i])
                 IN /\ b[2 * i] \in Objects
                    /\ rs[i].Version = o.version
                    /\ rs[i].Stable = o.stable
                    /\ Len(rs[i].Files) = Len(o.files)
                    /\ \A f \in 1..Len(o.files) :
                          /\ rs[i].Files[f].Filename = o.files[f].filename
                          /\ rs[i].Files[f].Os = o.files[f].os
                          /\ rs[i].Files[f].Arch = o.files[f].arch
                          /\ rs[i].Files[f].Version = o.files[f].version
                          /\ rs[i].Files[f].Sha256 = o.files[f].sha256
                          /\ rs[i].Files[f].Size = o.files[f].size
                          /\ rs[i].Files[f].Kind = o.files[f].kind

C17_Witness ==
    /\ GotVersions
    /\ call.arg.Body = <<"[", "R2", ",", "R1", "]">>
    /\ call.ret[1].err = "nil"
    /\ Len(call.ret[1].results) = 2
    /\ call.ret[1].results[1].Version = "go1.19.7"

\* the releases rs are in descending version order
Descending(rs) ==
    \A i, j \in 1..Len(rs) : i < j => Compare(rs[i].Version, rs[j].Version) >= 0

\* C18: the release list presented to the user is in descending version
\* order, whatever order the remote sent the releases in.
C18_ListIsDescending == Descending(versions)

\* C19: sorting releases with ByRelease gives a sequence that is
\* non-increasing under the version ordering, with dotted components compared
\* as numbers, and releases that compare equal keep their relative order.
C19_SortDescendingAndStable ==
    (call.fn = "Sort" /\ call.ret # <<>>) =>
        LET a == call.arg
            r == call.ret[1]
        IN /\ Compare("go1.20.2", "go1.20") > 0
           /\ Compare("go1.20", "go1.19.7") > 0
           /\ Compare("go1.19.7", "go1.18.10") > 0
           /\ Compare("go1.18.10", "go1.18.9") > 0
           /\ Descending(r)
           /\ \E p \in IndexOrders(Len(a)) :
                 /\ r = [i \in 1..Len(a) |-> a[p[i]]]
                 /\ \A i, j \in 1..Len(a) :
                       (i < j /\ Compare(r[i].Version, r[j].Version) = 0)
                          => p[i] < p[j]

\* the elements of a sequence in reverse order
Reverse(q) == [i \in 1..Len(q) |-> q[Len(q) + 1 - i]]

\* C21: Filter returns exactly the files that satisfy every predicate, in
\* their order, whatever the order of the predicates; when no file satisfies
\* them the result is empty and holds no zero File.
C21_FilterKeepsMatchesInOrder ==
    (call.fn = "Filter" /\ call.ret # <<>>) =>
        LET files == call.arg.files
            specs == call.arg.specs
            r == call.ret[1]
            Sat(f) == \A k \in 1..Len(specs) :
                         IF specs[k] = "linux" THEN f.Os = "linux" ELSE f.Arch = "amd64"
        IN /\ r = SelectSeq(files, Sat)
           /\ r = Filter(files, Reverse(specs))
           /\ (\A i \in 1..Len(files) : ~Sat(files[i])) => r = <<>>
           /\ specs # <<>> => \A i \in 1..Len(r) : r[i] # ZeroFile

C21_Witness ==
    /\ call.fn = "Filter"
    /\ call.arg.files = <<LinuxFileA, LinuxArmFile, WindowsFile>>
    /\ call.arg.specs = <<"amd64", "linux">>
    /\ call.ret = <<(<<LinuxFileA>>)>>

\* C22: the File selected for Download has the os and the arch of the
\* platform the tool runs on.
C22_SelectsRunningPlatform ==
    (call.fn = "SelectFile" /\ call.ret # <<>> /\ call.ret[1] # ZeroFile)
       => /\ call.ret[1].Os = call.arg.platform.goos
          /\ call.ret[1].Arch = call.arg.platform.goarch

\* C23: a confirm key handled when status is not Choosing starts no chain,
\* so that one chain at most is started in a run.
C23_EnterOnlyWhenChoosing ==
    [][status # "Choosing" => Len(chains') = Len(chains)]_vars

\* the error events of chain c the loop has handled
ErrorsHandled(c) ==
    Cardinality({i \in 1..Len(chains[c].handled) : chains[c].handled[i] = "err"})

\* C24: the loop handles at most one error event in a run, and the recorded
\* error is that of the first failure.
C24_OneErrorEvent == \A c \in Chains : ErrorsHandled(c) <= 1

\* C25: when the archive cannot be read, Decompress returns the error and
\* the process does not crash.
C25_ArchiveErrorIsReturned ==
    \A c \in Chains :
        chains[c].decompress = "err"
           => (chains[c].pc # "panic" /\ ~(exited /\ exitCode = 2))

\* C26: Download calls onProgress for a chunk only when the Write of the
\* chunk returned no error.
C26_ProgressOnlyAfterGoodWrite ==
    \A c \in Chains : chains[c].pc = "dlProgress" => ~chains[c].wrErr

C30_RemoveBeforeDecompress ==
    \A c \in Chains :
        LET ch == chains[c]
        IN /\ (ch.decompress # "none" \/ ch.entry > 0) => (ch.rewound /\ ch.removed)
           /\ (ch.pc = "sendExMsg" /\ ~(ch.rewound /\ ch.removed))
                 => (ch.msg \in {"seek", "remove"} /\ ch.decompress = "none")

C30_Witness ==
    \E c \in Chains :
        /\ chains[c].pc = "sendExMsg"
        /\ chains[c].msg = "remove"
        /\ chains[c].rewound
        /\ ~chains[c].removed
        /\ chains[c].decompress = "none"

\* name n is a proper prefix of name m
ProperPrefix(n, m) == Len(n) < Len(m) /\ SubSeq(m, 1, Len(n)) = n

\* no entry of archive a needs a directory where a has a regular file, and
\* no name is both a directory and a regular file
NoFileInTheWay(a) ==
    \A i, j \in 1..Len(a) :
        /\ a[i].Typeflag = "reg" => ~ProperPrefix(a[i].Name, a[j].Name)
        /\ a[i].Name = a[j].Name => a[i].Typeflag = a[j].Typeflag

\* C28: Decompress makes the directories an entry needs: a regular file
\* whose parent directory no earlier entry made is extracted all the same,
\* and an entry for a directory that exists is no error.
C28_DecompressMakesParents ==
    (call.fn = "Decompress" /\ call.ret # <<>> /\ NoFileInTheWay(call.arg))
       => call.ret[1].err = "nil"

\* regular-file entries among the first k entries of archive a
RegularUpTo(a, k) == Cardinality({i \in 1..k : a[i].Typeflag = "reg"})

\* C29: every progress fraction of Decompress is the regular files written
\* so far over the regular files of the archive, a number in [0,1], also for
\* an archive without a regular file.
C29_DecompressFractionDefined ==
    (call.fn = "Decompress" /\ call.ret # <<>>) =>
        LET a == call.arg
            events == call.ret[1].events
        IN \A k \in 1..Len(events) :
              /\ events[k] = <<RegularUpTo(a, k), RegularUpTo(a, Len(a))>>
              /\ InUnitInterval(events[k])

\* the loop handles the progress event chain c is sending from position p
HandlesProgress(c, p) ==
    LoopUp /\ chains[c].pc = p /\ chains'[c] # chains[c]

\* the progress event chain c is sending is lost: the loop is gone
LosesProgress(c) ==
    /\ loop = "stopped"
    /\ chains[c].pc \in {"dlProgress", "dcProgress"}
    /\ chains'[c] # chains[c]

FractionLeq(f, g) == f[1] * g[2] <= g[1] * f[2]

\* each fraction of events is at least the one before it
NonDecreasing(events) ==
    \A k \in 1..Len(events) - 1 : FractionLeq(events[k], events[k + 1])

\* C32: the progress fractions one Download call emits for a positive
\* declared length, and those one Decompress call emits for an archive with
\* a regular file, never decrease, whatever the call returns.
C32_FractionsNonDecreasing ==
    /\ (call.fn = "Download" /\ call.ret # <<>> /\ call.arg.total > 0)
          => /\ NonDecreasing(call.ret[1].events)
             /\ \A k \in 1..Len(call.ret[1].events) :
                   call.ret[1].events[k][2] = call.arg.total
    /\ (call.fn = "Decompress" /\ call.ret # <<>>
           /\ RegularUpTo(call.arg, Len(call.arg)) > 0)
          => /\ NonDecreasing(call.ret[1].events)
             /\ \A k \in 1..Len(call.ret[1].events) :
                   call.ret[1].events[k][2] = RegularUpTo(call.arg, Len(call.arg))

\* a Download that emitted two fractions and returned the error of its
\* second Write, which took one byte of two
C32_Witness ==
    /\ call.fn = "Download"
    /\ call.ret # <<>>
    /\ call.arg.total > 0
    /\ call.ret[1].err = "write"
    /\ call.ret[1].events = <<<<2, 4>>, <<3, 4>>>>

\* the loop handles the event of type t that chain c is sending
HandlesEvent(c, t) ==
    LoopUp /\ MsgType(chains[c]) = t /\ chains'[c] # chains[c]

\* C33: handling a progress event changes the progress indicator only, and
\* handling an error event records the error only: both leave status and
\* choice as they are; status changes only when a status event, the
\* completion event or ctrl+c is handled, and choice only on a confirmation.
C33_ProgressAndErrorKeepStatus ==
    [][/\ \A c \in 1..Len(chains) :
             /\ HandlesEvent(c, "progress")
                   => /\ percent' = Fraction(chains[c])
                      /\ UNCHANGED <<status, choice, err, listIndex, versions>>
             /\ HandlesEvent(c, "err")
                   => /\ err' = chains[c].msg
                      /\ UNCHANGED <<status, choice, percent, listIndex, versions>>
       /\ status' # status
             => \/ KeyCtrlC
                \/ \E c \in 1..Len(chains) :
                      HandlesEvent(c, "status") \/ HandlesEvent(c, "done")
       /\ choice' # choice => KeyEnter]_vars

\* a progress event and then an error event of the download were handled,
\* and the status is the one the status event wrote
C33_Witness ==
    /\ Len(chains) = 1
    /\ chains[1].handled = <<"Downloading", "err">>
    /\ err = "read"
    /\ percent = <<1, 1>>
    /\ status = "Downloading"
    /\ choice = "go1.20.2"

====
